---- MODULE Spec2Model ----
(***************************************************************************)
(* Liquidity-grab scanner (dashboard_simple.py): swing-low detection,      *)
(* liquidity-grab classification, alert extraction and the batch scan loop.*)
(*                                                                         *)
(* A frame is a function from the positions 0..n-1 to its rows; the       *)
(* positions are the source's iloc positions.  Prices are integer ticks;  *)
(* the depth the source computes as (swing_low - low) / swing_low * 100 is *)
(* kept as the exact fraction <<(swing_low - low) * 100, swing_low>>.      *)
(***************************************************************************)
EXTENDS Integers, Sequences, FiniteSets, TLC

VARIABLES
    df,           \* the frame of one ticker: position -> row
    pc,           \* how far the frame went: downloaded, detected, done
    swing_lows,   \* the list swing_lows of detect_liquidity_grab
    grab_ref,     \* per bar, swing_idx at the break of the inner loop
    alerts,       \* the list get_alerts returns
    call,         \* arguments and result of a call of find_swing_low
    plan,         \* selected files, each with what its tickers will do
    spc,          \* position of the scan
    fi,           \* current file (1-based place in selected_files)
    ti,           \* current ticker (1-based place in tickers)
    file_alerts,  \* tickers of the current file with recent alerts
    all_alerts,   \* (file, ticker) pairs stored in all_alerts
    scanned,      \* (file, ticker) pairs whose frame was scanned
    warned        \* files reported by st.warning

vars == <<df, pc, swing_lows, grab_ref, alerts, call,
          plan, spc, fi, ti, file_alerts, all_alerts, scanned, warned>>

scanvars == <<plan, spc, fi, ti, file_alerts, all_alerts, scanned, warned>>

(***************************************************************************)
(* Program constants                                                       *)
(***************************************************************************)
SWING_LEFT == 2
SWING_RIGHT == 2
MIN_BARS == 20
LOOKBACK == 50
\* the depth threshold 0.05 = DEPTH_NUM / DEPTH_DEN
DEPTH_NUM == 5
DEPTH_DEN == 100

None == -1

(***************************************************************************)
(* Bounds of the checked inputs                                            *)
(***************************************************************************)
MinLow == 1998
MaxLow == 2003
MaxOff == 2
MaxWin == 2
MaxBars == 6
MaxTick == 3
MaxFiles == 2
MaxTickers == 2

\* a frame is a function from the positions 0..n-1 (iloc) to its rows
DfLen(d) == Cardinality(DOMAIN d)
Columns(d) == DOMAIN d[0]

(***************************************************************************)
(* find_swing_low                                                          *)
(***************************************************************************)
\* the loops with ties let through
RECURSIVE LeftLoopTie(_, _, _, _)
LeftLoopTie(d, idx, i, left) ==
    IF i > left THEN TRUE
    ELSE IF d[idx - i].Low < d[idx].Low THEN FALSE
    ELSE LeftLoopTie(d, idx, i + 1, left)

RECURSIVE RightLoopTie(_, _, _, _)
RightLoopTie(d, idx, i, right) ==
    IF i > right THEN TRUE
    ELSE IF d[idx + i].Low < d[idx].Low THEN FALSE
    ELSE RightLoopTie(d, idx, i + 1, right)

RECURSIVE LeftLoop(_, _, _, _)
LeftLoop(d, idx, i, left) ==
    IF i > left THEN TRUE
    ELSE IF d[idx - i].Low <= d[idx].Low THEN FALSE
    ELSE LeftLoop(d, idx, i + 1, left)

RECURSIVE RightLoop(_, _, _, _)
RightLoop(d, idx, i, right) ==
    IF i > right THEN TRUE
    ELSE IF d[idx + i].Low <= d[idx].Low THEN FALSE
    ELSE RightLoop(d, idx, i + 1, right)

\* the swing test without the bars that follow
find_swing_low_left(d, idx, left, right) ==
    IF idx < left \/ idx >= DfLen(d) - right THEN FALSE
    ELSE LeftLoop(d, idx, 1, left)

find_swing_low(d, idx, left, right) ==
    IF idx < left \/ idx >= DfLen(d) - right THEN FALSE
    ELSE IF ~LeftLoop(d, idx, 1, left) THEN FALSE
    ELSE RightLoop(d, idx, 1, right)

(***************************************************************************)
(* detect_liquidity_grab                                                   *)
(***************************************************************************)
\* the list swing_lows of (position, low) pairs, built for i ascending
RECURSIVE SwingLowsFrom(_, _, _)
SwingLowsFrom(d, i, stop) ==
    IF i >= stop THEN <<>>
    ELSE IF find_swing_low(d, i, SWING_LEFT, SWING_RIGHT)
         THEN <<(<<i, d[i].Low>>)>> \o SwingLowsFrom(d, i + 1, stop)
         ELSE SwingLowsFrom(d, i + 1, stop)

SwingLows(d) == SwingLowsFrom(d, SWING_LEFT, DfLen(d) - SWING_RIGHT)

\* depth = (swing_low - current_low) / swing_low * 100, as a fraction
Depth(sl, cl) == <<(sl - cl) * 100, sl>>

DepthAtLeast(depth) == depth[1] * DEPTH_DEN >= DEPTH_NUM * depth[2]

\* depth > 0.05, for a positive swing low
DepthOver(depth) == depth[1] * DEPTH_DEN > DEPTH_NUM * depth[2]

\* the window test with the boundary bar left out
InWindowShort(swing_idx, idx) ==
    ~(swing_idx >= idx) /\ ~(swing_idx <= idx - LOOKBACK)

\* the window test one bar too wide
InWindowWide(swing_idx, idx) ==
    ~(swing_idx >= idx) /\ ~(swing_idx < idx - LOOKBACK - 1)

\* neither of the two `continue` tests on swing_idx fires
InWindow(swing_idx, idx) ==
    ~(swing_idx >= idx) /\ ~(swing_idx < idx - LOOKBACK)

\* wick below the swing low and close above it
Pierces(cl, cc, sl) == cl < sl /\ cc > sl

NoGrab == [liq_grab |-> FALSE, ref |-> None, grab_depth |-> <<0, 1>>]

\* the inner loop giving up at the first swing low in the window
RECURSIVE InnerLoopFirst(_, _, _, _, _)
InnerLoopFirst(sls, k, idx, cl, cc) ==
    IF k > Len(sls) THEN NoGrab
    ELSE IF ~InWindow(sls[k][1], idx)
         THEN InnerLoopFirst(sls, k + 1, idx, cl, cc)
    ELSE IF Pierces(cl, cc, sls[k][2]) /\ DepthOver(Depth(sls[k][2], cl))
         THEN [liq_grab |-> TRUE, ref |-> sls[k][1],
               grab_depth |-> Depth(sls[k][2], cl)]
         ELSE NoGrab

\* the inner loop over swing_lows for one bar, from list position k on
RECURSIVE InnerLoop(_, _, _, _, _)
InnerLoop(sls, k, idx, cl, cc) ==
    IF k > Len(sls) THEN NoGrab
    ELSE IF ~InWindow(sls[k][1], idx) THEN InnerLoop(sls, k + 1, idx, cl, cc)
    ELSE IF Pierces(cl, cc, sls[k][2]) /\ DepthOver(Depth(sls[k][2], cl))
         THEN [liq_grab |-> TRUE, ref |-> sls[k][1],
               grab_depth |-> Depth(sls[k][2], cl)]
         ELSE InnerLoop(sls, k + 1, idx, cl, cc)

SkipBar(idx) == idx < SWING_LEFT + SWING_RIGHT

\* the body of the outer loop for bar idx
BarResult(d, sls, idx) ==
    IF SkipBar(idx) THEN NoGrab
    ELSE InnerLoop(sls, 1, idx, d[idx].Low, d[idx].Close)

TooShortBelow(d) == DfLen(d) < MIN_BARS - 1

TooShort(d) == DfLen(d) < MIN_BARS

detect_liquidity_grab ==
    /\ pc = "downloaded"
    /\ pc' = "detected"
    /\ IF TooShort(df)
       THEN UNCHANGED <<df, swing_lows, grab_ref>>
       ELSE /\ swing_lows' = SwingLows(df)
            /\ grab_ref' = [idx \in DOMAIN df |->
                              BarResult(df, swing_lows', idx).ref]
            /\ df' = [idx \in DOMAIN df |->
                        [Low |-> df[idx].Low,
                         Close |-> df[idx].Close,
                         swing_low |->
                            IF \E k \in 1..Len(swing_lows') :
                                  swing_lows'[k][1] = idx
                            THEN df[idx].Low ELSE None,
                         liq_grab |->
                            BarResult(df, swing_lows', idx).liq_grab,
                         grab_depth |->
                            BarResult(df, swing_lows', idx).grab_depth]]
    /\ UNCHANGED <<alerts, call>>
    /\ UNCHANGED scanvars

(***************************************************************************)
(* get_alerts                                                              *)
(***************************************************************************)
\* the flagged rows in descending order
RECURSIVE GrabRowsDesc(_, _, _)
GrabRowsDesc(d, i, n) ==
    IF i >= n THEN <<>>
    ELSE IF d[i].liq_grab
         THEN GrabRowsDesc(d, i + 1, n)
              \o <<[bar |-> i, price |-> d[i].Close, depth |-> d[i].grab_depth]>>
         ELSE GrabRowsDesc(d, i + 1, n)

\* the rows of df[df['liq_grab'] == True], in frame order, from position i
RECURSIVE GrabRows(_, _, _)
GrabRows(d, i, n) ==
    IF i >= n THEN <<>>
    ELSE IF d[i].liq_grab
         THEN <<[bar |-> i, price |-> d[i].Close, depth |-> d[i].grab_depth]>>
              \o GrabRows(d, i + 1, n)
         ELSE GrabRows(d, i + 1, n)

AlertList(d) ==
    IF "liq_grab" \notin Columns(d) THEN <<>> ELSE GrabRows(d, 0, DfLen(d))

get_alerts ==
    /\ pc = "detected"
    /\ pc' = "done"
    /\ alerts' = AlertList(df)
    /\ UNCHANGED <<df, swing_lows, grab_ref, call>>
    /\ UNCHANGED scanvars

(***************************************************************************)
(* Input series                                                            *)
(***************************************************************************)
BaseLow == MaxLow - 1
BaseClose == MaxLow
LowVals == MinLow..MaxLow
CloseVals == {MinLow + 2, MaxLow}
Lens == {MIN_BARS - 1, MIN_BARS, LOOKBACK + SWING_LEFT + SWING_RIGHT + 2}
Gaps == (1..(SWING_RIGHT + 1)) \cup {LOOKBACK, LOOKBACK + 1}

Bar(l, c) == [Low |-> l, Close |-> c]
Flat(n, l, c) == [i \in 0..(n - 1) |-> Bar(l, c)]

\* three deviating bars, the first at most MaxOff from the start
Placements(n) ==
    {p \in (0..MaxOff) \X (0..(n - 1)) \X (0..(n - 1)) :
        p[2] - p[1] \in Gaps /\ p[3] - p[2] \in Gaps}

SeriesInit ==
    \/ \E n \in Lens : \E p \in Placements(n) :
       \E l1, l2, l3 \in LowVals : \E c3 \in CloseVals :
          df = [Flat(n, BaseLow, BaseClose) EXCEPT
                   ![p[1]] = Bar(l1, BaseClose),
                   ![p[2]] = Bar(l2, BaseClose),
                   ![p[3]] = Bar(l3, c3)]
    \/ \* 25 bars flat at 100, bar 10 low 95, bar 15 low 94 close 96
       df = [Flat(25, 100, 100) EXCEPT
                ![10] = Bar(95, 100), ![15] = Bar(94, 96)]
    \/ \* the same in ticks of 0.0001, bar 15 low 94.9999
       df = [Flat(25, 1000000, 1000000) EXCEPT
                ![10] = Bar(950000, 1000000), ![15] = Bar(949999, 960000)]

DfIdle ==
    /\ swing_lows = <<>>
    /\ grab_ref = <<>>
    /\ alerts = <<>>

ScanIdle ==
    /\ plan = <<>>
    /\ spc = "idle"
    /\ fi = 0
    /\ ti = 0
    /\ file_alerts = {}
    /\ all_alerts = {}
    /\ scanned = {}
    /\ warned = {}

Init ==
    /\ SeriesInit
    /\ pc = "downloaded"
    /\ call = <<>>
    /\ DfIdle
    /\ ScanIdle

Next == detect_liquidity_grab \/ get_alerts

Spec == Init /\ [][Next]_vars

(***************************************************************************)
(* find_swing_low applied to short series with arbitrary lows              *)
(***************************************************************************)
SwingInit ==
    /\ \E n \in 1..MaxBars : \E lows \in [0..(n - 1) -> 1..MaxTick] :
          df = [i \in 0..(n - 1) |-> Bar(lows[i], lows[i])]
    /\ pc = "series"
    /\ call = <<>>
    /\ DfIdle
    /\ ScanIdle

CallFindSwingLow ==
    /\ pc = "series"
    /\ pc' = "called"
    /\ \E idx \in 0..(DfLen(df) - 1) : \E left, right \in 1..MaxWin :
          call' = [idx |-> idx, left |-> left, right |-> right,
                   result |-> find_swing_low(df, idx, left, right)]
    /\ UNCHANGED <<df, swing_lows, grab_ref, alerts>>
    /\ UNCHANGED scanvars

SwingNext == CallFindSwingLow

SpecSwing == SwingInit /\ [][SwingNext]_vars

(***************************************************************************)
(* The batch scan over the selected files and their tickers                *)
(***************************************************************************)
\* what happens to one ticker: download_data returns an empty frame
\* ("empty"), the scan finds no recent alert ("quiet") or some ("alerts"),
\* or a statement of the loop body raises ("raise")
Outcomes == {"empty", "quiet", "alerts", "raise"}

RECURSIVE TickerLists(_)
TickerLists(n) ==
    IF n = 0 THEN {<<>>}
    ELSE TickerLists(n - 1)
         \cup {Append(t, o) : t \in {u \in TickerLists(n - 1) : Len(u) = n - 1},
                              o \in Outcomes}

\* a selected file: read_csv raises ("unreadable") or yields a ticker list
FilePlans ==
    {[read |-> "unreadable", tickers |-> <<>>]}
    \cup {[read |-> "ok", tickers |-> t] : t \in TickerLists(MaxTickers)}

RECURSIVE Selections(_)
Selections(n) ==
    IF n = 0 THEN {<<>>}
    ELSE Selections(n - 1)
         \cup {Append(s, f) : s \in {u \in Selections(n - 1) : Len(u) = n - 1},
                              f \in FilePlans}

ScanInit ==
    /\ df = <<>>
    /\ pc = "scan"
    /\ call = <<>>
    /\ DfIdle
    /\ plan \in Selections(MaxFiles)
    /\ spc = "clicked"
    /\ fi = 0
    /\ ti = 0
    /\ file_alerts = {}
    /\ all_alerts = {}
    /\ scanned = {}
    /\ warned = {}

\* if not selected_files: st.error(...)
NoSelection ==
    /\ spc = "clicked"
    /\ plan = <<>>
    /\ spc' = "error"
    /\ UNCHANGED <<plan, fi, ti, file_alerts, all_alerts, scanned, warned>>
    /\ UNCHANGED <<df, pc, swing_lows, grab_ref, alerts, call>>

StartScan ==
    /\ spc = "clicked"
    /\ plan # <<>>
    /\ spc' = "file"
    /\ fi' = 1
    /\ all_alerts' = {}
    /\ UNCHANGED <<plan, ti, file_alerts, scanned, warned>>
    /\ UNCHANGED <<df, pc, swing_lows, grab_ref, alerts, call>>

\* pd.read_csv and the ticker list; a failure goes to the except clause
ReadFile ==
    /\ spc = "file"
    /\ fi <= Len(plan)
    /\ IF plan[fi].read = "unreadable"
       THEN /\ warned' = warned \cup {fi}
            /\ fi' = fi + 1
            /\ UNCHANGED <<spc, ti, file_alerts>>
       ELSE /\ file_alerts' = {}
            /\ ti' = 1
            /\ spc' = "ticker"
            /\ UNCHANGED <<fi, warned>>
    /\ UNCHANGED <<plan, all_alerts, scanned>>
    /\ UNCHANGED <<df, pc, swing_lows, grab_ref, alerts, call>>

\* one iteration of the ticker loop
ScanTicker ==
    /\ spc = "ticker"
    /\ ti <= Len(plan[fi].tickers)
    /\ LET o == plan[fi].tickers[ti] IN
       \/ /\ o = "empty"
          /\ ti' = ti + 1
          /\ UNCHANGED <<spc, fi, file_alerts, scanned, warned>>
       \/ /\ o = "quiet"
          /\ scanned' = scanned \cup {<<fi, ti>>}
          /\ ti' = ti + 1
          /\ UNCHANGED <<spc, fi, file_alerts, warned>>
       \/ /\ o = "alerts"
          /\ scanned' = scanned \cup {<<fi, ti>>}
          /\ file_alerts' = file_alerts \cup {ti}
          /\ ti' = ti + 1
          /\ UNCHANGED <<spc, fi, warned>>
       \/ /\ o = "raise"
          /\ warned' = warned \cup {fi}
          /\ fi' = fi + 1
          /\ spc' = "file"
          /\ UNCHANGED <<ti, file_alerts, scanned>>
    /\ UNCHANGED <<plan, all_alerts>>
    /\ UNCHANGED <<df, pc, swing_lows, grab_ref, alerts, call>>

\* after the ticker loop: if file_alerts: all_alerts[file_name] = file_alerts
EndFile ==
    /\ spc = "ticker"
    /\ ti > Len(plan[fi].tickers)
    /\ all_alerts' = all_alerts \cup {<<fi, t>> : t \in file_alerts}
    /\ fi' = fi + 1
    /\ spc' = "file"
    /\ UNCHANGED <<plan, ti, file_alerts, scanned, warned>>
    /\ UNCHANGED <<df, pc, swing_lows, grab_ref, alerts, call>>

ShowResults ==
    /\ spc = "file"
    /\ fi > Len(plan)
    /\ spc' = "results"
    /\ UNCHANGED <<plan, fi, ti, file_alerts, all_alerts, scanned, warned>>
    /\ UNCHANGED <<df, pc, swing_lows, grab_ref, alerts, call>>

ScanNext ==
    \/ NoSelection
    \/ StartScan
    \/ ReadFile
    \/ ScanTicker
    \/ EndFile
    \/ ShowResults

SpecScan == ScanInit /\ [][ScanNext]_vars

(***************************************************************************)
(* Properties                                                              *)
(***************************************************************************)
Annotated == pc \in {"detected", "done"} /\ "liq_grab" \in Columns(df)

Prices(d) == [i \in DOMAIN d |-> Bar(d[i].Low, d[i].Close)]

\* bar i has a full window and a low strictly below every low in it
SwingLowAt(d, i, left, right) ==
    /\ left <= i
    /\ i < DfLen(d) - right
    /\ \A j \in 1..left : d[i].Low < d[i - j].Low
    /\ \A j \in 1..right : d[i].Low < d[i + j].Low

SwingSet(d) == {s \in DOMAIN d : SwingLowAt(d, s, SWING_LEFT, SWING_RIGHT)}

\* (sl - cl) / sl * 100 > 0.05, for a positive sl
ExceedsThreshold(sl, cl) == (sl - cl) * 100 * 100 > 5 * sl

PiercedBy(d, s, idx) == d[idx].Low < d[s].Low /\ d[s].Low < d[idx].Close

Qualifies(d, s, idx) ==
    /\ s < idx
    /\ idx - s <= LOOKBACK
    /\ PiercedBy(d, s, idx)
    /\ ExceedsThreshold(d[s].Low, d[idx].Low)

Scenario25 ==
    [Flat(25, 100, 100) EXCEPT ![10] = Bar(95, 100), ![15] = Bar(94, 96)]

ScenarioShallow ==
    [Flat(25, 1000000, 1000000) EXCEPT
        ![10] = Bar(950000, 1000000), ![15] = Bar(949999, 960000)]

\* C1: every flagged bar has a swing low with low(bar) < swing low <
\* close(bar) whose depth, the recorded one, is strictly above 0.05; a bar
\* whose depth against every earlier swing low is at or below 0.05 is not
\* flagged, and the shallow scenario (bar 15 low 94.9999) flags nothing.
C1_GrabIsDeepPierce ==
    Annotated =>
       LET S == SwingSet(df) IN
       /\ \A idx \in DOMAIN df : df[idx].liq_grab =>
             \E s \in S :
                /\ PiercedBy(df, s, idx)
                /\ df[idx].grab_depth
                      = <<(df[s].Low - df[idx].Low) * 100, df[s].Low>>
                /\ ExceedsThreshold(df[s].Low, df[idx].Low)
       /\ \A idx \in DOMAIN df :
             (\A s \in S : s < idx => ~ExceedsThreshold(df[s].Low, df[idx].Low))
                => ~df[idx].liq_grab
       /\ Prices(df) = ScenarioShallow
             => \A idx \in DOMAIN df : ~df[idx].liq_grab

\* a flagged bar next to a bar that pierces a swing low by exactly 0.05
\* percent or less and is left unflagged
C1_Witness ==
    /\ Annotated
    /\ \E idx \in DOMAIN df : df[idx].liq_grab
    /\ \E idx \in DOMAIN df : \E s \in SwingSet(df) :
          /\ s < idx
          /\ idx - s <= LOOKBACK
          /\ PiercedBy(df, s, idx)
          /\ (df[s].Low - df[idx].Low) * 100 * 100 = 5 * df[s].Low
          /\ ~df[idx].liq_grab

\* C2: in a series of at least 20 bars, a bar with a qualifying swing low
\* (earlier, at most 50 bars back, pierced, depth above 0.05) yields exactly
\* one alert, however many swing lows qualify; the 25-bar scenario yields
\* one alert, at bar 15, against the swing low of bar 10.
C2_ExactlyOneEvent ==
    (pc = "done" /\ DfLen(df) >= 20) =>
       LET S == SwingSet(df) IN
       /\ \A idx \in DOMAIN df :
             (\E s \in S : Qualifies(df, s, idx)) =>
                Cardinality({k \in 1..Len(alerts) : alerts[k].bar = idx}) = 1
       /\ Prices(df) = Scenario25 =>
             /\ alerts = <<[bar |-> 15, price |-> 96, depth |-> <<100, 95>>]>>
             /\ grab_ref[15] = 10

\* a bar with two qualifying swing lows and one alert
C2_Witness ==
    /\ pc = "done"
    /\ \E idx \in DOMAIN df :
          /\ Cardinality({s \in SwingSet(df) : Qualifies(df, s, idx)}) >= 2
          /\ Cardinality({k \in 1..Len(alerts) : alerts[k].bar = idx}) = 1

\* C3: a series shorter than 20 bars comes back from detect_liquidity_grab
\* without a liq_grab column and get_alerts returns the empty list.
C3_ShortSeriesNoEvents ==
    (pc \in {"detected", "done"} /\ DfLen(df) < 20) =>
       /\ Columns(df) = {"Low", "Close"}
       /\ swing_lows = <<>>
       /\ pc = "done" => alerts = <<>>

\* a 19-bar series with a bar that qualifies against a swing low
C3_Witness ==
    /\ pc = "done"
    /\ DfLen(df) = 19
    /\ alerts = <<>>
    /\ \E idx \in DOMAIN df : \E s \in SwingSet(df) : Qualifies(df, s, idx)

\* C5: the swing low an event refers to is earlier than the bar and at
\* most 50 bars back; a flagged bar has a qualifying swing low in that
\* window.
C5_ReferenceInLookback ==
    Annotated =>
       \A idx \in DOMAIN df : df[idx].liq_grab =>
          /\ grab_ref[idx] < idx
          /\ idx - grab_ref[idx] <= 50
          /\ \E s \in SwingSet(df) :
                /\ s < idx
                /\ idx - s <= 50
                /\ PiercedBy(df, s, idx)
                /\ ExceedsThreshold(df[s].Low, df[idx].Low)

\* an event against a swing low exactly 50 bars back, and an unflagged bar
\* that pierces, deeply enough, a swing low 51 bars back
C5_Witness ==
    /\ Annotated
    /\ \E idx \in DOMAIN df : df[idx].liq_grab /\ idx - grab_ref[idx] = 50
    /\ \E idx \in DOMAIN df : \E s \in SwingSet(df) :
          /\ idx - s = 51
          /\ PiercedBy(df, s, idx)
          /\ ExceedsThreshold(df[s].Low, df[idx].Low)
          /\ ~df[idx].liq_grab

\* C7: the alerts of one series are strictly increasing in bar position.
C7_AlertsIncreasing ==
    pc = "done" =>
       \A k \in 1..(Len(alerts) - 1) : alerts[k].bar < alerts[k + 1].bar

\* two alerts for one series
C7_Witness == pc = "done" /\ Len(alerts) >= 2

\* C9: a flagged bar is attributed to the smallest-index swing low that
\* passes all three tests in its window, with the depth against that one;
\* earlier swing lows in the window that fail a test do not end the scan.
C9_EarliestQualifying ==
    Annotated =>
       LET S == SwingSet(df) IN
       \A idx \in DOMAIN df :
          LET Q == {s \in S : Qualifies(df, s, idx)} IN
          /\ Q # {} => df[idx].liq_grab
          /\ df[idx].liq_grab =>
                /\ grab_ref[idx] \in Q
                /\ \A s \in Q : grab_ref[idx] <= s
                /\ df[idx].grab_depth
                      = <<(df[grab_ref[idx]].Low - df[idx].Low) * 100,
                          df[grab_ref[idx]].Low>>

\* a bar qualifying against two swing lows, attributed to the earlier one
\* although the later one is both nearer and deeper
C9_Witness ==
    /\ Annotated
    /\ \E idx \in DOMAIN df : \E s \in SwingSet(df) :
          /\ df[idx].liq_grab
          /\ Qualifies(df, s, idx)
          /\ grab_ref[idx] < s
          /\ df[grab_ref[idx]].Low < df[s].Low

\* C10: an event lies more than `right` bars after its swing low, so at
\* bar 5 or later, and the inner loop would flag none of the first four
\* bars that the outer loop skips.
C10_GrabAfterConfirmation ==
    Annotated =>
       /\ \A idx \in DOMAIN df : df[idx].liq_grab =>
             /\ idx - grab_ref[idx] > 2
             /\ idx >= 5
       /\ \A idx \in 0..3 :
             ~InnerLoop(swing_lows, 1, idx, df[idx].Low, df[idx].Close).liq_grab

\* an event at bar 5 against the swing low of bar 2
C10_Witness ==
    /\ Annotated
    /\ df[5].liq_grab
    /\ grab_ref[5] = 2

FullWindow(d, i, left, right) == left <= i /\ i < DfLen(d) - right

\* the positions of the window of bar i that exist
Window(d, i, left, right) ==
    {j \in DOMAIN d : j # i /\ i - left <= j /\ j <= i + right}

\* C4: find_swing_low answers True exactly for a bar with left <= i <
\* length - right whose low is strictly below each of the `left` lows before
\* it and the `right` lows after it; never for a bar within left/right of a
\* boundary, never for a bar whose low equals a low in its window.
C4_SwingLowIff ==
    pc = "called" =>
       /\ call.result <=> SwingLowAt(df, call.idx, call.left, call.right)
       /\ ~FullWindow(df, call.idx, call.left, call.right) => ~call.result
       /\ (\E j \in Window(df, call.idx, call.left, call.right) :
              df[j].Low = df[call.idx].Low) => ~call.result

\* a swing low at the only position of its series that has a full window
C4_Witness ==
    /\ pc = "called"
    /\ call.result
    /\ call.idx = call.left
    /\ DfLen(df) = call.left + call.right + 1

\* C8 as stated: a bar whose low strictly exceeds all left+right
\* neighbouring lows is marked a swing low.
C8_ExceedingIsSwingLow ==
    (/\ pc = "called"
     /\ FullWindow(df, call.idx, call.left, call.right)
     /\ \A j \in Window(df, call.idx, call.left, call.right) :
           df[call.idx].Low > df[j].Low)
       => call.result

\* C8 amended: a bar with a full window whose low is strictly below all
\* left+right neighbouring lows is marked a swing low; a bar tied with the
\* low of any neighbour is not.
C8_BelowIsSwingLow ==
    pc = "called" =>
       /\ (/\ FullWindow(df, call.idx, call.left, call.right)
           /\ \A j \in Window(df, call.idx, call.left, call.right) :
                 df[call.idx].Low < df[j].Low)
             => call.result
       /\ (\E j \in Window(df, call.idx, call.left, call.right) :
              df[call.idx].Low = df[j].Low)
             => ~call.result

\* the default window of two bars on each side around a marked bar
C8_Witness ==
    /\ pc = "called"
    /\ call.left = 2
    /\ call.right = 2
    /\ \A j \in Window(df, call.idx, 2, 2) : df[call.idx].Low < df[j].Low
    /\ Cardinality(Window(df, call.idx, 2, 2)) = 4
    /\ call.result

\* C6: at the end of the batch every ticker of a readable file whose
\* download gave data has been scanned, whatever happened to the other
\* tickers and files, and every ticker with recent alerts is in all_alerts.
C6_SkipAndContinue ==
    spc = "results" =>
       \A f \in 1..Len(plan) : \A t \in 1..Len(plan[f].tickers) :
          /\ plan[f].tickers[t] \in {"quiet", "alerts"}
                => <<f, t>> \in scanned
          /\ plan[f].tickers[t] = "alerts" => <<f, t>> \in all_alerts

====
